---- MODULE Spec2Model ----
(***************************************************************************)
(* Smart Scout v2.0 (src/ema_scout.py): one invocation of main() after     *)
(* another against the three persisted artifacts, the checkpoint           *)
(* STATE_FILE, the audit log LOG_FILE and the archive directory            *)
(* ARCHIVE_DIR.                                                            *)
(*                                                                         *)
(* Strings are sequences of code points, so that sorted() and              *)
(* str.replace() are computed as Python computes them.  A dict is a        *)
(* function whose domain is its key set, a list is a sequence.  PDF bytes  *)
(* are the tokens of Contents; Partial stands for the bytes a failed       *)
(* f.write() left behind.  A JSON file holds the value                     *)
(* json.dump() was given (str/None/dict/list round-trip exactly), and      *)
(* json.dump() raises on bytes.  Every requests.get() is answered by the   *)
(* remote as it pleases: the answer is an input of the step that asks.     *)
(***************************************************************************)
EXTENDS Integers, Sequences, FiniteSets, TLC

VARIABLES
    state_file,      \* contents of STATE_FILE, or NoFile
    log_file,        \* contents of LOG_FILE, or NoFile
    archive,         \* ARCHIVE_DIR: file path -> bytes, or NoFile (no directory)
    today,           \* the UTC day datetime.utcnow() falls in, 1..MaxDay
    pc,              \* position of main()
    previous_state,  \* main: previous_state
    current_state,   \* main: current_state
    events,          \* main: events
    trace,           \* the requests and writes of this run, in order (history)
    fetched,         \* what the portal delivered this run (history)
    started          \* the persisted artifacts as the run found them (history)

vars == <<state_file, log_file, archive, today, pc, previous_state,
          current_state, events, trace, fetched, started>>

----------------------------------------------------------------------------
(* Bounds *)

\* a new run is started only while the audit log is shorter than this
MaxLog == 1
\* days on which runs happen
MaxDay == 2
\* links on the portal page
MaxLinks == 2

----------------------------------------------------------------------------
(* Values *)

\* a value that may be None is held as None or Some(value), a file that may
\* not exist as NoFile or Some(contents)
None == <<>>
NoFile == <<>>
Some(value) == <<value>>
EmptyDict == <<>>

\* the documents of the portal: "a b" and "a/b"
DocNames == {<<97, 32, 98>>, <<97, 47, 98>>}
Urls == {"u1", "u2"}
Contents == {"v1", "v2"}
Partial == "partial"

STATE_FILE == "document_state.json"
LOG_FILE == "change_log.json"
\* "_archive"
ARCHIVE_DIR == <<95, 97, 114, 99, 104, 105, 118, 101>>

\* hashlib.sha256(bytes).hexdigest(): distinct digests for distinct bytes
sha256(content) == <<"sha256", content>>

\* the exception a call raised
Raised(exc) == [raised |-> TRUE, value |-> exc]
\* the value a call returned
Returned(value) == [raised |-> FALSE, value |-> value]

----------------------------------------------------------------------------
(* Python built-ins the program relies on *)

\* str < str: lexicographic on code points
StrLess(a, b) ==
    \E i \in 1..(Len(a) + 1) :
        /\ i <= Len(b)
        /\ \A j \in 1..(i - 1) : a[j] = b[j]
        /\ (i = Len(a) + 1 \/ a[i] < b[i])

\* sorted() with reverse=True
RECURSIVE sorted_reverse(_)
sorted_reverse(S) ==
    IF S = {} THEN <<>>
    ELSE LET greatest == CHOOSE x \in S : \A y \in S \ {x} : StrLess(y, x)
         IN  <<greatest>> \o sorted_reverse(S \ {greatest})

\* sorted(set of str): ascending
RECURSIVE sorted(_)
sorted(S) ==
    IF S = {} THEN <<>>
    ELSE LET least == CHOOSE x \in S : \A y \in S \ {x} : StrLess(x, y)
         IN  <<least>> \o sorted(S \ {least})

\* str.replace(old, new) for single characters
replace(str, old, new) == [i \in 1..Len(str) |-> IF str[i] = old THEN new ELSE str[i]]

\* datetime.datetime.utcnow().strftime('%Y-%m-%d'): "2025-01-0<day>"
strftime(day) == <<50, 48, 50, 53, 45, 48, 49, 45, 48, 48 + day>>

\* dict[key] = value
SetItem(dict, key, value) ==
    [k \in DOMAIN dict \cup {key} |-> IF k = key THEN value ELSE dict[k]]

\* json.dump() serializes str, None, dict and list, and raises TypeError on bytes
JsonSerializable(data) ==
    \A k \in DOMAIN data : "content" \notin DOMAIN data[k]

----------------------------------------------------------------------------
(* src/ema_scout.py *)

\* get_pdf_content_hash, line 32: hashlib has no attribute sha2sha256
get_pdf_content_hash(pdf_content) == Raised("AttributeError")

\* read_json_file: the parsed file, or {} / [] when there is none
read_json_file(file, filepath) ==
    IF file # NoFile THEN file[1]
    ELSE IF filepath = STATE_FILE THEN EmptyDict ELSE <<>>

\* write_json_file: what the file holds afterwards; open() may fail (the file
\* stays as it was) and json.dump raises on data it cannot serialize
write_json_file(file, data, opened) ==
    IF opened /\ JsonSerializable(data)
    THEN [file |-> Some(data), raised |-> FALSE]
    ELSE [file |-> file, raised |-> TRUE]

\* line 132-133: "_archive/<today>_<name, ' ' and '/' as '_'>_old.pdf"
archive_path_of(today_str, doc_name) ==
    ARCHIVE_DIR \o <<47>> \o today_str \o <<95>>
        \o replace(replace(doc_name, 32, 95), 47, 95)
        \o <<95, 111, 108, 100, 46, 112, 100, 102>>

\* What the remote and the disk may answer to one archival (lines 136-146)
Answers ==
    {[get |-> "exception", write |-> "none"], [get |-> "not_ok", write |-> "none"]}
    \cup [get : Contents, write : {"ok", "open_fails", "write_fails"}]

\* archive_old without line 143: a refused download keeps the path
archive_old_keeps_path(dir, path, answer) ==
    IF answer.get = "exception"
    THEN [archive_path |-> None, dir |-> dir, raised |-> FALSE]
    ELSE IF answer.get = "not_ok"
    THEN [archive_path |-> Some(path), dir |-> dir, raised |-> FALSE]
    ELSE IF answer.write = "open_fails"
    THEN [archive_path |-> None, dir |-> dir, raised |-> FALSE]
    ELSE IF answer.write = "write_fails"
    THEN [archive_path |-> None, dir |-> SetItem(dir, path, Partial), raised |-> FALSE]
    ELSE [archive_path |-> Some(path), dir |-> SetItem(dir, path, answer.get),
          raised |-> FALSE]

\* archive_old without the try block: the exceptions leave compare_states
archive_old_uncaught(dir, path, answer) ==
    IF answer.get = "exception"
    THEN [archive_path |-> None, dir |-> dir, raised |-> TRUE]
    ELSE IF answer.get = "not_ok"
    THEN [archive_path |-> None, dir |-> dir, raised |-> FALSE]
    ELSE IF answer.write = "open_fails"
    THEN [archive_path |-> None, dir |-> dir, raised |-> TRUE]
    ELSE IF answer.write = "write_fails"
    THEN [archive_path |-> None, dir |-> SetItem(dir, path, Partial), raised |-> TRUE]
    ELSE [archive_path |-> Some(path), dir |-> SetItem(dir, path, answer.get),
          raised |-> FALSE]

\* lines 136-146: archive the old version of one document; the try block
\* catches every exception, so none leaves it (raised is FALSE)
archive_old(dir, path, answer) ==
    IF answer.get \in {"exception", "not_ok"}
    THEN [archive_path |-> None, dir |-> dir, raised |-> FALSE]
    ELSE IF answer.write = "open_fails"
    THEN [archive_path |-> None, dir |-> dir, raised |-> FALSE]
    ELSE IF answer.write = "write_fails"
    THEN [archive_path |-> None, dir |-> SetItem(dir, path, Partial), raised |-> FALSE]
    ELSE [archive_path |-> Some(path), dir |-> SetItem(dir, path, answer.get),
          raised |-> FALSE]

\* line 130 comparing the location as well
is_updated_or_moved(old_entry, new_entry) ==
    old_entry.hash # new_entry.hash \/ old_entry.url # new_entry.url

\* line 130 with == for !=
is_updated_inverted(old_entry, new_entry) == old_entry.hash = new_entry.hash

\* line 130: the content of a document changed
is_updated(old_entry, new_entry) == old_entry.hash # new_entry.hash

\* lines 108-116: the NEW events
new_events(names, new_state, today_str) ==
    [i \in 1..Len(names) |->
        [date |-> today_str, type |-> "NEW", document |-> names[i],
         url |-> new_state[names[i]].url]]

\* lines 119-126 with one more key in the dict, a location left null
removed_events_null_location(names, today_str) ==
    [i \in 1..Len(names) |->
        [date |-> today_str, type |-> "REMOVED", document |-> names[i],
         previous_location |-> None]]

\* lines 119-126: the REMOVED events
removed_events(names, today_str) ==
    [i \in 1..Len(names) |->
        [date |-> today_str, type |-> "REMOVED", document |-> names[i]]]

\* lines 148-156 moved above line 131: the UPDATED event is appended first,
\* the archival is attempted afterwards and its path is not in the event
RECURSIVE updated_loop_event_first(_, _, _, _, _, _)
updated_loop_event_first(names, old_state, new_state, today_str, answers, acc) ==
    IF names = <<>> THEN acc
    ELSE
        LET doc_name == Head(names)
        IN  IF ~is_updated(old_state[doc_name], new_state[doc_name])
            THEN updated_loop_event_first(Tail(names), old_state, new_state,
                    today_str, answers, acc)
            ELSE
                LET path == archive_path_of(today_str, doc_name)
                    answer == answers[doc_name]
                    done == archive_old(acc.dir, path, answer)
                    event == [date |-> today_str, type |-> "UPDATED",
                              document |-> doc_name,
                              new_url |-> new_state[doc_name].url,
                              archived_old_pdf_path |-> None]
                    step == [op |-> "get", document |-> doc_name,
                             url |-> old_state[doc_name].url,
                             got |-> IF answer.get \in Contents THEN "ok" ELSE answer.get,
                             write |-> answer.write]
                IN  updated_loop_event_first(Tail(names), old_state, new_state,
                        today_str, answers,
                        [change_events |-> Append(acc.change_events, event),
                         dir |-> done.dir,
                         trace |-> acc.trace
                             \o <<[op |-> "event", document |-> doc_name], step>>,
                         raised |-> FALSE])

\* lines 129-157: the loop over the documents in both states
RECURSIVE updated_loop(_, _, _, _, _, _)
updated_loop(names, old_state, new_state, today_str, answers, acc) ==
    IF names = <<>> THEN acc
    ELSE
        LET doc_name == Head(names)
        IN  IF ~is_updated(old_state[doc_name], new_state[doc_name])
            THEN updated_loop(Tail(names), old_state, new_state, today_str, answers, acc)
            ELSE
                LET path == archive_path_of(today_str, doc_name)
                    answer == answers[doc_name]
                    done == archive_old(acc.dir, path, answer)
                    event == [date |-> today_str, type |-> "UPDATED",
                              document |-> doc_name,
                              new_url |-> new_state[doc_name].url,
                              archived_old_pdf_path |-> done.archive_path]
                    step == [op |-> "get", document |-> doc_name,
                             url |-> old_state[doc_name].url,
                             got |-> IF answer.get \in Contents THEN "ok" ELSE answer.get,
                             write |-> answer.write]
                IN  IF done.raised
                    THEN [change_events |-> acc.change_events, dir |-> done.dir,
                          trace |-> Append(acc.trace, step), raised |-> TRUE]
                    ELSE updated_loop(Tail(names), old_state, new_state, today_str,
                            answers,
                            [change_events |-> Append(acc.change_events, event),
                             dir |-> done.dir,
                             trace |-> acc.trace
                                 \o <<step, [op |-> "event", document |-> doc_name]>>,
                             raised |-> FALSE])

\* the documents compare_states archives: in both states, hashes differ
Changed(old_state, new_state) ==
    {n \in DOMAIN old_state \cap DOMAIN new_state : is_updated(old_state[n], new_state[n])}

\* compare_states taking a first run as the baseline: with an empty old state
\* it returns no event
compare_states_baseline(old_state, new_state, day, dir, answers) ==
    LET old_docs == DOMAIN old_state
        new_docs == DOMAIN new_state
        made == IF dir = NoFile THEN <<>> ELSE dir[1]
        today_str == strftime(day)
        first == new_events(sorted(new_docs \ old_docs), new_state, today_str)
                 \o removed_events(sorted(old_docs \ new_docs), today_str)
    IN  IF old_state = EmptyDict
        THEN [change_events |-> <<>>, dir |-> made, trace |-> <<>>, raised |-> FALSE]
        ELSE updated_loop(sorted(old_docs \cap new_docs), old_state, new_state,
                today_str, answers,
                [change_events |-> first,
                 dir |-> made,
                 trace |-> [i \in 1..Len(first) |->
                               [op |-> "event", document |-> first[i].document]],
                 raised |-> FALSE])

\* compare_states, lines 93-159
compare_states(old_state, new_state, day, dir, answers) ==
    LET old_docs == DOMAIN old_state
        new_docs == DOMAIN new_state
        made == IF dir = NoFile THEN <<>> ELSE dir[1]
        today_str == strftime(day)
        first == new_events(sorted(new_docs \ old_docs), new_state, today_str)
                 \o removed_events(sorted(old_docs \ new_docs), today_str)
    IN  updated_loop(sorted(old_docs \cap new_docs), old_state, new_state, today_str,
            answers,
            [change_events |-> first,
             dir |-> made,
             trace |-> [i \in 1..Len(first) |->
                           [op |-> "event", document |-> first[i].document]],
             raised |-> FALSE])

\* str.strip(): without leading and trailing spaces
RECURSIVE strip(_)
strip(str) ==
    IF str = <<>> THEN str
    ELSE IF Head(str) = 32 THEN strip(Tail(str))
    ELSE IF str[Len(str)] = 32 THEN strip(SubSeq(str, 1, Len(str) - 1))
    ELSE str

\* lines 54-76: the loop over the links of the page; a link is its text, its
\* href and what the download of the href answers
RECURSIVE scan_links(_, _)
scan_links(pdf_links, state) ==
    IF pdf_links = <<>> THEN state
    ELSE
        LET link == Head(pdf_links)
            doc_name == strip(link.text)
            content_hash == get_pdf_content_hash(link.answer)
        IN  IF doc_name = <<>> \/ link.answer \notin Contents
                \/ content_hash.raised
            THEN scan_links(Tail(pdf_links), state)
            ELSE scan_links(Tail(pdf_links),
                    SetItem(state, doc_name,
                        [url |-> link.href, hash |-> content_hash.value,
                         content |-> link.answer]))

\* get_current_documents_state returning the empty dict when the page cannot
\* be fetched
get_current_documents_state_never_none(page_ok, pdf_links) ==
    IF ~page_ok THEN Some(EmptyDict) ELSE Some(scan_links(pdf_links, EmptyDict))

\* get_current_documents_state, lines 34-79: None when the page cannot be
\* fetched, else the dict built from its links
get_current_documents_state_of(page_ok, pdf_links) ==
    IF ~page_ok THEN None ELSE Some(scan_links(pdf_links, EmptyDict))

\* line 177 putting the new events first
extend_front(change_log, new) == new \o change_log

\* line 177: list.extend
extend(change_log, new) == change_log \o new

\* lines 181-184 with a hash of the url saved as the hash
state_to_save_of_url_as_hash(state) ==
    [name \in DOMAIN state |-> [url |-> state[name].url, hash |-> sha256(state[name].url)]]

\* lines 181-184: the snapshot without the PDF bytes
state_to_save_of(state) ==
    [name \in DOMAIN state |-> [url |-> state[name].url, hash |-> state[name].hash]]

----------------------------------------------------------------------------
(* Inputs *)

\* what a link of the page may be
LinkTexts == DocNames \cup {<<32>>, <<32, 97, 32, 98, 32>>}
Links == [text : LinkTexts, href : Urls, answer : Contents \cup {"exception"}]
Pages == UNION {[1..n -> Links] : n \in 0..MaxLinks}

\* the dicts get_current_documents_state is documented to return
FullEntries == {[url |-> u, hash |-> sha256(c), content |-> c] : u \in Urls, c \in Contents}
Snapshots == UNION {[D -> FullEntries] : D \in SUBSET DocNames}

\* the audit log of a first run that found these documents, on day 1
first_log(state) == new_events(sorted(DOMAIN state), state, strftime(1))

----------------------------------------------------------------------------
(* main, one action per statement that touches the outside world *)

NotFetched == [page_ok |-> FALSE, names |-> {}]

Idle == /\ previous_state = EmptyDict
        /\ current_state = None
        /\ events = <<>>
        /\ trace = <<>>
        /\ fetched = NotFetched

\* a host on which the script has not run yet
InitFresh ==
    /\ state_file = NoFile
    /\ log_file = NoFile
    /\ archive = NoFile
    /\ today = 1
    /\ pc = "start"
    /\ started = [state_file |-> state_file, log_file |-> log_file, archive |-> archive]
    /\ Idle

\* a host as a first run on day 1 left it, whatever that run found
InitRan ==
    /\ \E found \in Snapshots :
        /\ state_file = Some(state_to_save_of(found))
        /\ log_file = IF found = EmptyDict THEN NoFile ELSE Some(first_log(found))
    /\ archive = Some(EmptyDict)
    /\ today \in 1..MaxDay
    /\ pc = "start"
    /\ started = [state_file |-> state_file, log_file |-> log_file, archive |-> archive]
    /\ Idle

Init == InitFresh \/ InitRan

\* line 164
ReadState ==
    /\ pc = "start"
    /\ previous_state' = read_json_file(state_file, STATE_FILE)
    /\ pc' = "fetch"
    /\ UNCHANGED <<state_file, log_file, archive, today, current_state, events,
                   trace, fetched, started>>

\* lines 165-167, the portal answering as it pleases
GetCurrentDocumentsState ==
    /\ pc = "fetch"
    /\ \E page_ok \in BOOLEAN, pdf_links \in Pages :
        /\ current_state' = get_current_documents_state_of(page_ok, pdf_links)
        /\ fetched' = [page_ok |-> page_ok,
                        names |-> IF page_ok
                                  THEN {strip(pdf_links[i].text) : i \in
                                          {j \in 1..Len(pdf_links) :
                                              /\ pdf_links[j].answer \in Contents
                                              /\ strip(pdf_links[j].text) # <<>>}}
                                  ELSE {}]
    /\ pc' = IF current_state' = None THEN "finished" ELSE "compare"
    /\ UNCHANGED <<state_file, log_file, archive, today, previous_state, events,
                   trace, started>>

\* lines 165-167 with get_current_documents_state replaced by a stand-in that
\* returns any dict of its documented shape, or None
StubCurrentDocumentsState ==
    /\ pc = "fetch"
    /\ \E snapshot \in {Some(s) : s \in Snapshots} \cup {None} :
        /\ current_state' = snapshot
        /\ fetched' = [page_ok |-> snapshot # None,
                        names |-> IF snapshot = None THEN {} ELSE DOMAIN snapshot[1]]
    /\ pc' = IF current_state' = None THEN "finished" ELSE "compare"
    /\ UNCHANGED <<state_file, log_file, archive, today, previous_state, events,
                   trace, started>>

\* line 169
CompareStates ==
    /\ pc = "compare"
    /\ \E answers \in [Changed(previous_state, current_state[1]) -> Answers] :
        LET result == compare_states(previous_state, current_state[1], today, archive, answers)
        IN  /\ events' = IF result.raised THEN <<>> ELSE result.change_events
            /\ archive' = Some(result.dir)
            /\ trace' = result.trace
            /\ pc' = IF result.raised THEN "crashed"
                     ELSE IF result.change_events = <<>> THEN "save" ELSE "log"
    /\ UNCHANGED <<state_file, log_file, today, previous_state, current_state,
                   fetched, started>>

\* lines 176-178 inside a try block: main goes on when the log write failed
AppendLog_caught ==
    /\ pc = "log"
    /\ \E opened \in BOOLEAN :
        LET change_log == extend(read_json_file(log_file, LOG_FILE), events)
            written == write_json_file(log_file, change_log, opened)
        IN  /\ log_file' = written.file
            /\ trace' = Append(trace, [op |-> "write_log", raised |-> written.raised])
            /\ pc' = "save"
    /\ UNCHANGED <<state_file, archive, today, previous_state, current_state,
                   events, fetched, started>>

\* lines 176-178; an exception of write_json_file ends main
AppendLog ==
    /\ pc = "log"
    /\ \E opened \in BOOLEAN :
        LET change_log == extend(read_json_file(log_file, LOG_FILE), events)
            written == write_json_file(log_file, change_log, opened)
        IN  /\ log_file' = written.file
            /\ trace' = Append(trace, [op |-> "write_log", raised |-> written.raised])
            /\ pc' = IF written.raised THEN "crashed" ELSE "save"
    /\ UNCHANGED <<state_file, archive, today, previous_state, current_state,
                   events, fetched, started>>

\* lines 181-185
SaveState ==
    /\ pc = "save"
    /\ \E opened \in BOOLEAN :
        LET written == write_json_file(state_file, state_to_save_of(current_state[1]), opened)
        IN  /\ state_file' = written.file
            /\ trace' = Append(trace, [op |-> "write_state", raised |-> written.raised])
            /\ pc' = IF written.raised THEN "crashed" ELSE "finished"
    /\ UNCHANGED <<log_file, archive, today, previous_state, current_state,
                   events, fetched, started>>

\* the next invocation of the script, the same day or a later one
NextRun ==
    /\ pc \in {"finished", "crashed"}
    /\ Len(read_json_file(log_file, LOG_FILE)) < MaxLog
    /\ \E day \in {today, today + 1} :
        /\ day <= MaxDay
        /\ today' = day
    /\ pc' = "start"
    /\ previous_state' = EmptyDict
    /\ current_state' = None
    /\ events' = <<>>
    /\ trace' = <<>>
    /\ fetched' = NotFetched
    /\ started' = [state_file |-> state_file, log_file |-> log_file, archive |-> archive]
    /\ UNCHANGED <<state_file, log_file, archive>>

\* the exit status of the process: an uncaught exception makes it 1
exit_status == IF pc = "crashed" THEN 1 ELSE 0

Next ==
    \/ ReadState
    \/ GetCurrentDocumentsState
    \/ CompareStates
    \/ AppendLog
    \/ SaveState
    \/ NextRun

\* the script as it is
Spec == Init /\ [][Next]_vars

NextStub ==
    \/ ReadState
    \/ StubCurrentDocumentsState
    \/ CompareStates
    \/ AppendLog
    \/ SaveState
    \/ NextRun

\* main and compare_states on every snapshot the fetch is documented to return.
\* Under Spec the snapshot is None or empty, because get_pdf_content_hash raises
\* for every document and scan_links drops it: no NEW and no UPDATED event can
\* occur there.
SpecStub == Init /\ [][NextStub]_vars

\* a host as two runs on day 1 left it: the first found these documents, the
\* second found none of them
InitGone ==
    /\ \E found \in Snapshots \ {EmptyDict} :
        log_file = Some(first_log(found)
                        \o removed_events(sorted(DOMAIN found), strftime(1)))
    /\ state_file = Some(EmptyDict)
    /\ archive = Some(EmptyDict)
    /\ today \in 1..MaxDay
    /\ pc = "start"
    /\ started = [state_file |-> state_file, log_file |-> log_file, archive |-> archive]
    /\ Idle

InitCompleting == Init \/ InitGone

\* the script is started again only after main returned (lines 167-187)
NextRunCompleted == pc = "finished" /\ NextRun

NextCompleting ==
    \/ ReadState
    \/ StubCurrentDocumentsState
    \/ CompareStates
    \/ AppendLog
    \/ SaveState
    \/ NextRunCompleted

\* SpecStub with every run but the last one ending by a return of main: a run
\* ended by an exception of write_json_file is followed by no other run
SpecCompleting == InitCompleting /\ [][NextCompleting]_vars

----------------------------------------------------------------------------
(* What the claims speak of *)

\* the dict get_current_documents_state returned
cur == current_state[1]
\* compare_states has returned to main
Compared == current_state # None /\ pc \in {"log", "save", "finished", "crashed"}
\* main has ended, normally or by an uncaught exception
RunEnded == pc \in {"finished", "crashed"}
\* the run obtained a snapshot and completed
Completed == current_state # None /\ pc = "finished"
\* the audit log as load would return it, now and when the run started
Log == read_json_file(log_file, LOG_FILE)
StartLog == read_json_file(started.log_file, LOG_FILE)
\* the files of the archive directory
Files(dir) == IF dir = NoFile THEN EmptyDict ELSE dir[1]
\* the events of this run about one document, and the archival requests for it
EventsOf(name) == {i \in DOMAIN events : events[i].document = name}
GetsOf(name) == {i \in DOMAIN trace : trace[i].op = "get" /\ trace[i].document = name}
Gets == {i \in DOMAIN trace : trace[i].op = "get"}
Archived(i) == trace[i].got = "ok" /\ trace[i].write = "ok"
\* an archival of this run failed; a write of the log or the checkpoint failed
ArchivalFailed == \E i \in Gets : ~Archived(i)
WriteRaised ==
    \E i \in DOMAIN trace : trace[i].op \in {"write_log", "write_state"} /\ trace[i].raised
\* the names whose hash differs between checkpoint and snapshot
HashChanged ==
    {n \in DOMAIN previous_state \cap DOMAIN cur : previous_state[n].hash # cur[n].hash}
\* the kind of event a document is due
Due(name) ==
    IF name \in DOMAIN cur \ DOMAIN previous_state THEN "NEW"
    ELSE IF name \in DOMAIN previous_state \ DOMAIN cur THEN "REMOVED"
    ELSE IF name \in HashChanged THEN "UPDATED"
    ELSE "none"
Rank(type) == CASE type = "NEW" -> 1 [] type = "REMOVED" -> 2 [] type = "UPDATED" -> 3

----------------------------------------------------------------------------
(* C1: compare_states returns exactly one NEW event for each name only in  *)
(* the current state, exactly one REMOVED event for each name only in the  *)
(* previous state, exactly one UPDATED event for each name in both whose   *)
(* hashes differ, and no other event.                                      *)
C1_OneEventPerChange ==
    Compared =>
        /\ \A i \in DOMAIN events : events[i].document \in DocNames
        /\ \A name \in DocNames :
            IF Due(name) = "none" THEN EventsOf(name) = {}
            ELSE /\ Cardinality(EventsOf(name)) = 1
                 /\ \A i \in EventsOf(name) : events[i].type = Due(name)

C1_Witness ==
    /\ Compared
    /\ Len(events) = 2
    /\ events[1].type = "NEW"
    /\ events[2].type = "UPDATED"

(* C2: every UPDATED event that carries an archive path points at the      *)
(* previous version of the document: the bytes at the path hash to the     *)
(* hash the previous checkpoint recorded for it.                           *)
C2_ArchiveHoldsOldVersion ==
    Compared =>
        \A i \in DOMAIN events :
            (events[i].type = "UPDATED" /\ events[i].archived_old_pdf_path # None) =>
                LET path == events[i].archived_old_pdf_path[1]
                IN  /\ path \in DOMAIN Files(archive)
                    /\ sha256(Files(archive)[path]) = previous_state[events[i].document].hash

C4_FetchFailureWritesNothing ==
    /\ pc \in {"compare", "log", "save", "finished", "crashed"} =>
            (current_state = None <=> ~fetched.page_ok)
    /\ (RunEnded /\ ~fetched.page_ok) =>
            /\ pc = "finished"
            /\ state_file = started.state_file
            /\ log_file = started.log_file
            /\ archive = started.archive
            /\ events = <<>>
            /\ trace = <<>>

C4_Witness ==
    /\ RunEnded
    /\ ~fetched.page_ok
    /\ DOMAIN previous_state = DocNames
    /\ Len(Log) = 2

(* C5: compare_states requests the previous url of a document exactly once *)
(* when it emits an UPDATED event for it and never otherwise; the event    *)
(* carries a path exactly when the download and the write both succeeded,  *)
(* and then a file is at that path; else it carries None.                  *)
C5_ArchivalOncePerUpdate ==
    Compared =>
        \A name \in DocNames :
            IF \E i \in EventsOf(name) : events[i].type = "UPDATED"
            THEN /\ Cardinality(GetsOf(name)) = 1
                 /\ \A g \in GetsOf(name), i \in EventsOf(name) :
                        /\ trace[g].url = previous_state[name].url
                        /\ events[i].archived_old_pdf_path # None <=> Archived(g)
                        /\ events[i].archived_old_pdf_path # None =>
                              events[i].archived_old_pdf_path[1] \in DOMAIN Files(archive)
            ELSE GetsOf(name) = {}

C5_Witness ==
    /\ Compared
    /\ Len(events) = 2
    /\ events[1].type = "UPDATED" /\ events[1].archived_old_pdf_path = None
    /\ events[2].type = "UPDATED" /\ events[2].archived_old_pdf_path # None

(* C6: a failed archival does not end the run: every document whose hash   *)
(* changed still has its archival requested and its UPDATED event emitted, *)
(* main ends by an exception only when a write of the log or of the        *)
(* checkpoint raised, and a completed run has appended the events to the   *)
(* log and saved the current snapshot as the checkpoint.                   *)
C6_ArchivalFailureDoesNotAbort ==
    /\ (Compared /\ ArchivalFailed) =>
            \A name \in HashChanged :
                /\ GetsOf(name) # {}
                /\ \E i \in EventsOf(name) : events[i].type = "UPDATED"
    /\ (pc = "crashed" /\ ArchivalFailed) => WriteRaised
    /\ (pc = "finished" /\ ArchivalFailed) =>
            /\ Log = StartLog \o events
            /\ \E i \in DOMAIN events :
                /\ events[i].type = "UPDATED"
                /\ events[i].archived_old_pdf_path = None
            /\ state_file = Some(state_to_save_of(cur))

C6_Witness ==
    /\ Completed
    /\ Cardinality(HashChanged) = 2
    /\ Len(trace) = 6
    /\ trace[1].op = "get" /\ ~Archived(1)
    /\ trace[3].op = "get" /\ Archived(3)

(* C7: the events of a run come NEW first, then REMOVED, then UPDATED, and *)
(* by ascending document name within a kind; the log holds the runs one    *)
(* after the other: the events of this run are its tail, behind those of   *)
(* the earlier runs, and no event is dated before an event ahead of it.    *)
C7_EventOrder ==
    /\ Compared =>
            \A i, j \in DOMAIN events :
                i < j => \/ Rank(events[i].type) < Rank(events[j].type)
                         \/ /\ events[i].type = events[j].type
                            /\ StrLess(events[i].document, events[j].document)
    /\ Completed =>
            /\ SubSeq(Log, Len(Log) - Len(events) + 1, Len(Log)) = events
            /\ \A i, j \in DOMAIN Log :
                i < j => ~StrLess(Log[j].date, Log[i].date)

C7_Witness ==
    /\ Completed
    /\ Len(StartLog) = 2
    /\ Len(events) = 2
    /\ events[1].type = events[2].type
    /\ events[1].date # Log[1].date

(* C8: a snapshot with the names and hashes of the checkpoint yields no    *)
(* event and no archival, and the run that found it leaves the audit log   *)
(* and the archived files as they were.                                    *)
Unchanged ==
    /\ current_state # None
    /\ DOMAIN cur = DOMAIN previous_state
    /\ \A name \in DOMAIN cur : cur[name].hash = previous_state[name].hash

C8_Idempotent ==
    /\ (Compared /\ Unchanged) => (events = <<>> /\ Gets = {})
    /\ (Completed /\ Unchanged) =>
            /\ log_file = started.log_file
            /\ Files(archive) = Files(started.archive)

C8_Witness ==
    /\ Completed
    /\ Unchanged
    /\ DOMAIN cur = DocNames
    /\ Len(Log) = 2

(* C9: after a run that obtained a snapshot and completed, the checkpoint  *)
(* loads as the snapshot without the bytes: the names of the snapshot,     *)
(* each with the url and the hash of this run and nothing else.            *)
C9_CheckpointRoundTrip ==
    Completed =>
        LET loaded == read_json_file(state_file, STATE_FILE)
        IN  /\ state_file # NoFile
            /\ DOMAIN loaded = DOMAIN cur
            /\ \A name \in DOMAIN cur :
                loaded[name] = [url |-> cur[name].url, hash |-> cur[name].hash]

C9_Witness ==
    /\ Completed
    /\ \E gone \in DOMAIN previous_state : gone \notin DOMAIN cur
    /\ \E kept \in DOMAIN cur :
        /\ kept \in DOMAIN previous_state
        /\ cur[kept].url # previous_state[kept].url
        /\ cur[kept].hash # previous_state[kept].hash

(* C10 as claimed: the exit status is non-zero exactly when an archival    *)
(* download, an archive write, or a write of the log or the checkpoint     *)
(* failed during the run.                                                  *)
C10_StatusReportsEveryFailure ==
    RunEnded => (exit_status # 0 <=> (ArchivalFailed \/ WriteRaised))

(* C10 as amended: the exit status is non-zero exactly when a write of the *)
(* log or of the checkpoint raised; a failed archival download or archive  *)
(* write is caught and leaves the status at zero.                          *)
C10_StatusReportsUncaughtWrites ==
    RunEnded => (exit_status # 0 <=> WriteRaised)

C10_Witness ==
    /\ pc = "finished"
    /\ ArchivalFailed
    /\ exit_status = 0

(* C11: the checkpoint file changes only by the write at the end of main,  *)
(* after compare_states returned and, when there are events, after the log *)
(* was written; when the log write raised, no checkpoint write follows and *)
(* the checkpoint is as the run found it.                                  *)
LogWrites == {i \in DOMAIN trace : trace[i].op = "write_log"}
StateWrites == {i \in DOMAIN trace : trace[i].op = "write_state"}

C11_CheckpointAfterLog ==
    /\ (\E i \in LogWrites : trace[i].raised) =>
            /\ StateWrites = {}
            /\ state_file = started.state_file
    /\ \A j \in StateWrites :
            /\ j = Len(trace)
            /\ Compared
            /\ events # <<>> => \E i \in LogWrites : i < j /\ ~trace[i].raised
    /\ state_file # started.state_file =>
            \E j \in StateWrites : ~trace[j].raised /\ pc = "finished"

C11_Witness ==
    /\ pc = "crashed"
    /\ \E i \in LogWrites : trace[i].raised
    /\ DOMAIN previous_state = DocNames
    /\ DOMAIN cur = {}
    /\ state_file = Some(previous_state)

(* C12: for every document whose hash changed, the download of the old     *)
(* url (the archival attempt) is made before the document's UPDATED event  *)
(* is created, before the log is written and before the checkpoint is      *)
(* written.                                                                *)
EventSteps(name) ==
    {i \in DOMAIN trace : trace[i].op = "event" /\ trace[i].document = name}

C12_ArchiveBeforeRecord ==
    Compared =>
        \A name \in HashChanged :
            /\ \E i \in EventsOf(name) : events[i].type = "UPDATED"
            /\ \E g \in GetsOf(name) :
                /\ trace[g].url = previous_state[name].url
                /\ \A e \in EventSteps(name) : g < e
                /\ \A w \in LogWrites \cup StateWrites : g < w

C12_Witness ==
    /\ Completed
    /\ HashChanged = DocNames
    /\ ArchivalFailed
    /\ \E i \in Gets : Archived(i)
    /\ LogWrites # {} /\ StateWrites # {}
    /\ state_file = Some(state_to_save_of(cur))
    /\ \A name \in DocNames : previous_state[name].url # cur[name].url

(* C13 as stated: every REMOVED event and every UPDATED event has, beside  *)
(* the date, the type, the name, the new url and the archive path, a field *)
(* whose value is the url the previous checkpoint stores for the document. *)
OtherFields(event) ==
    DOMAIN event \ {"date", "type", "document", "new_url", "archived_old_pdf_path"}

C13_EventsCarryPreviousLocation ==
    Compared =>
        \A i \in DOMAIN events :
            events[i].type \in {"REMOVED", "UPDATED"} =>
                \E field \in OtherFields(events[i]) :
                    events[i][field] = previous_state[events[i].document].url

(* C13: the fields of an event are exactly those of its kind: a REMOVED    *)
(* event has date, type and document and no location; an UPDATED event has *)
(* these, new_url (the url of the current snapshot) and                    *)
(* archived_old_pdf_path, and no previous location; a NEW event has these  *)
(* and url (the url of the current snapshot).                              *)
C13_EventFields ==
    Compared =>
        \A i \in DOMAIN events :
            LET event == events[i]
            IN  CASE event.type = "NEW" ->
                        /\ DOMAIN event = {"date", "type", "document", "url"}
                        /\ event.url = cur[event.document].url
                  [] event.type = "REMOVED" ->
                        DOMAIN event = {"date", "type", "document"}
                  [] event.type = "UPDATED" ->
                        /\ DOMAIN event = {"date", "type", "document", "new_url",
                                           "archived_old_pdf_path"}
                        /\ event.new_url = cur[event.document].url

C13_Witness ==
    /\ Compared
    /\ Len(events) = 2
    /\ events[1].type = "REMOVED"
    /\ events[2].type = "UPDATED"
    /\ previous_state[events[2].document].url # events[2].new_url

(* C14: two distinct documents updated in the same run are archived to     *)
(* distinct paths.                                                         *)
C14_ArchivePathsDistinct ==
    Compared =>
        \A name, other \in HashChanged :
            name # other =>
                archive_path_of(strftime(today), name)
                    # archive_path_of(strftime(today), other)

(* C15: a document in both states with the same hash and another url gets  *)
(* no event and no archival attempt, the checkpoint written at the end of  *)
(* the run stores its new url, and nothing the run adds to the log names   *)
(* the document.                                                           *)
Moved ==
    {name \in DOMAIN previous_state \cap DOMAIN cur :
        /\ previous_state[name].hash = cur[name].hash
        /\ previous_state[name].url # cur[name].url}

C15_MoveIsSilent ==
    Compared =>
        \A name \in Moved :
            /\ EventsOf(name) = {}
            /\ GetsOf(name) = {}
            /\ Completed =>
                /\ state_file[1][name].url = cur[name].url
                /\ state_file[1][name].hash = previous_state[name].hash
                /\ Len(Log) >= Len(StartLog)
                /\ \A i \in (Len(StartLog) + 1)..Len(Log) : Log[i].document # name

C15_Witness ==
    /\ Completed
    /\ \E name \in Moved :
        /\ started.state_file[1][name].url # state_file[1][name].url
        /\ \E other \in HashChanged : other # name
    /\ Len(Log) > Len(StartLog)

(* C16: a run that finds no checkpoint file loads an empty previous state, *)
(* emits exactly one NEW event per current document and archives nothing;  *)
(* a run with an empty current snapshot emits exactly one REMOVED event    *)
(* per checkpoint document, archives nothing and writes an empty           *)
(* checkpoint; with both empty there is no event, no log write, and        *)
(* nothing raises in the comparison.                                       *)
OneEventEach(names, type) ==
    /\ Len(events) = Cardinality(names)
    /\ \A name \in names :
        \E i \in DOMAIN events :
            events[i].document = name /\ events[i].type = type

C16_TotalOnEmptyInputs ==
    Compared =>
        /\ started.state_file = NoFile =>
            /\ previous_state = EmptyDict
            /\ OneEventEach(DOMAIN cur, "NEW")
            /\ Gets = {}
        /\ cur = EmptyDict =>
            /\ OneEventEach(DOMAIN previous_state, "REMOVED")
            /\ Gets = {}
            /\ Completed => state_file = Some(EmptyDict)
        /\ (previous_state = EmptyDict /\ cur = EmptyDict) =>
            /\ events = <<>>
            /\ LogWrites = {}
            /\ pc = "crashed" => \E j \in StateWrites : trace[j].raised

C16_Witness ==
    /\ Completed
    /\ started.state_file = NoFile
    /\ DOMAIN cur = DocNames
    /\ Len(events) = 2
    /\ state_file = Some(state_to_save_of(cur))

(* C17: when the page was fetched, the snapshot get_current_documents_state*)
(* returns holds exactly the linked documents with a non-empty name whose  *)
(* download succeeded, each with a hash that is the SHA-256 of its bytes;  *)
(* so it is not empty when the page lists such a document.                 *)
Fetched == fetched.page_ok /\ pc \in {"compare", "log", "save", "finished", "crashed"}

C17_SnapshotHoldsDownloaded ==
    Fetched =>
        /\ current_state # None
        /\ DOMAIN cur = fetched.names
        /\ \A name \in DOMAIN cur : cur[name].hash = sha256(cur[name].content)

(* C18: when the page was fetched, a document that could not be downloaded *)
(* or hashed does not end the run and does not make the snapshot None: the *)
(* document is left out, so if the checkpoint has it the run emits one     *)
(* REMOVED event for it and the checkpoint it writes has not got it; and a *)
(* run that downloads a document the checkpoint has not got emits one NEW  *)
(* event for it, no UPDATED event, and makes no archival attempt for it.   *)
OnlyEvent(name, type) ==
    /\ Cardinality(EventsOf(name)) = 1
    /\ \A i \in EventsOf(name) : events[i].type = type

C18_OmittedThenNew ==
    Fetched =>
        /\ current_state # None
        /\ Compared =>
            \A name \in DocNames :
                /\ (name \in DOMAIN previous_state /\ name \notin fetched.names) =>
                    /\ OnlyEvent(name, "REMOVED")
                    /\ Completed => name \notin DOMAIN state_file[1]
                /\ (name \notin DOMAIN previous_state /\ name \in fetched.names) =>
                    /\ OnlyEvent(name, "NEW")
                    /\ GetsOf(name) = {}

(* C19: between runs, each of which returned from main, the names in the   *)
(* checkpoint are the names whose last NEW or REMOVED event in the log is  *)
(* NEW; the NEW and REMOVED events of a document alternate, starting with  *)
(* NEW; and an UPDATED event comes only when the document's last NEW or    *)
(* REMOVED event before it is NEW.                                         *)
Listings(log, name) ==
    {i \in DOMAIN log : log[i].document = name /\ log[i].type \in {"NEW", "REMOVED"}}

LastListing(log, name) ==
    IF Listings(log, name) = {} THEN "none"
    ELSE log[CHOOSE i \in Listings(log, name) :
                \A j \in Listings(log, name) : j <= i].type

BetweenRuns == pc \in {"start", "finished"}

C19_LogMatchesCheckpoint ==
    BetweenRuns =>
        /\ DOMAIN read_json_file(state_file, STATE_FILE)
                = {name \in DocNames : LastListing(Log, name) = "NEW"}
        /\ \A name \in DocNames :
            \A i \in Listings(Log, name) :
                Log[i].type =
                    IF Cardinality({j \in Listings(Log, name) : j < i}) % 2 = 0
                    THEN "NEW" ELSE "REMOVED"
        /\ \A i \in DOMAIN Log :
            Log[i].type = "UPDATED" =>
                LastListing(SubSeq(Log, 1, i - 1), Log[i].document) = "NEW"

C19_Witness ==
    /\ Completed
    /\ \E name \in DocNames :
        /\ Cardinality(Listings(Log, name)) = 3
        /\ name \in DOMAIN state_file[1]
    /\ \E name \in DocNames :
        /\ Cardinality(Listings(Log, name)) = 2
        /\ name \notin DOMAIN state_file[1]

====
